---- MODULE Spec2Model ----
(***************************************************************************)
(* Model of src/main.py: the breach-check command line tool.               *)
(*                                                                         *)
(* A Python str is a sequence of one-character strings; an Optional[str]   *)
(* is a record [set, v] (None is [set |-> FALSE, v |-> <<>>]).             *)
(* One process runs: parse_args, main, BreachAlarm.run, the single await   *)
(* of the HTTP response inside check_hibp, and the process exit.           *)
(***************************************************************************)
EXTENDS Integers, Sequences, FiniteSets, TLC

VARIABLES
    pc,           \* position of the process
    supplied,     \* the options of the mutually exclusive group on the command line
    args,         \* the argparse namespace: email, org_name, technology
    breach_alarm, \* the BreachAlarm instance: constructed, email, org_name, technology
    calls,        \* the methods of BreachAlarm invoked by run, in order
    requests,     \* number of HTTP GET requests issued
    response,     \* what the in-flight request came back with
    ret,          \* the return value of check_hibp
    log,          \* records handed to logging, in order
    printed,      \* lines handed to print, in order
    exit_code,    \* the exit status of the process (-1 while it runs)
    exc           \* the exception that left main / run / check_hibp ("none" if none)

vars == <<pc, supplied, args, breach_alarm, calls, requests, response, ret, log,
          printed, exit_code, exc>>

---------------------------------------------------------------------------
(* Bounds of the inputs *)

MaxEmailLen == 7
MaxTermLen == 2
MaxRecords == 2

EmailChars == {"a", "@", ".", "\n"}
TermChars == {"x", " "}
Names == {"Adobe", "LinkedIn"}
Statuses == {200, 204, 404, 429, 500}

StringsOver(chars, n) == UNION {[1..k -> chars] : k \in 0..n}
EmailStrings == StringsOver(EmailChars, MaxEmailLen)
TermStrings == StringsOver(TermChars, MaxTermLen)

\* A breach record is a JSON object; one without the Name field is malformed.
Records == {[Name |-> n] : n \in Names} \cup {[Title |-> n] : n \in Names}
Bodies == UNION {[1..k -> Records] : k \in 0..MaxRecords}

---------------------------------------------------------------------------
(* Python values *)

None == [set |-> FALSE, v |-> <<>>]
Some(s) == [set |-> TRUE, v |-> s]

\* Truth value of an Optional[str]: None and "" are false.
Truthy(x) == x.set /\ Len(x.v) > 0

Lower == {"a","b","c","d","e","f","g","h","i","j","k","l","m",
          "n","o","p","q","r","s","t","u","v","w","x","y","z"}
Upper == {"A","B","C","D","E","F","G","H","I","J","K","L","M",
          "N","O","P","Q","R","S","T","U","V","W","X","Y","Z"}
Digits == {"0","1","2","3","4","5","6","7","8","9"}
Whitespace == {" ", "\t", "\n", "\r", "\f"}

IsAlpha(c) == c \in Lower \cup Upper
IsLocalChar(c) == IsAlpha(c) \/ c \in Digits \/ c \in {".", "_", "%", "+", "-"}
IsDomainChar(c) == IsAlpha(c) \/ c \in Digits \/ c \in {".", "-"}

\* re.match(r"^[a-zA-Z0-9._%+-]+@[a-zA-Z0-9.-]+\.[a-zA-Z]{2,}$", email):
\* `$` matches at the end of the string and also just before a final newline.
is_valid_email(email) ==
    LET n == Len(email)
        Ends == {n} \cup (IF n >= 1 /\ email[n] = "\n" THEN {n - 1} ELSE {})
    IN \E e \in Ends, i \in 1..n, j \in 1..n :
          /\ i >= 2
          /\ \A k \in 1..(i - 1) : IsLocalChar(email[k])
          /\ email[i] = "@"
          /\ j >= i + 2
          /\ \A k \in (i + 1)..(j - 1) : IsDomainChar(email[k])
          /\ email[j] = "."
          /\ e - j >= 2
          /\ \A k \in (j + 1)..e : IsAlpha(email[k])

RECURSIVE lstrip(_)
lstrip(s) == IF s # <<>> /\ Head(s) \in Whitespace THEN lstrip(Tail(s)) ELSE s

RECURSIVE rstrip(_)
rstrip(s) == IF s # <<>> /\ s[Len(s)] \in Whitespace
             THEN rstrip(SubSeq(s, 1, Len(s) - 1)) ELSE s

\* str.strip()
strip(s) == rstrip(lstrip(s))

Line(m) == [msg |-> m, code |-> 0]
LineCode(m, c) == [msg |-> m, code |-> c]
Rec(l, m) == [level |-> l, msg |-> m, code |-> 0]
RecCode(l, m, c) == [level |-> l, msg |-> m, code |-> c]

---------------------------------------------------------------------------
(* setup_argparse / parse_args *)

Dests == {"email", "org_name", "technology"}

ValuesFor(d) == IF d = "email" THEN EmailStrings ELSE TermStrings

GroupAcceptsNotExclusive(given) == Cardinality(given) >= 1

\* add_mutually_exclusive_group(required=True): one option of the group must be
\* given and no two different ones may be.
GroupAccepts(given) == Cardinality(given) = 1

NoArgs == [d \in Dests |-> None]

Init ==
    /\ pc = "start"
    /\ supplied = {}
    /\ args = NoArgs
    /\ breach_alarm = [constructed |-> FALSE, email |-> None, org_name |-> None,
                       technology |-> None]
    /\ calls = <<>>
    /\ requests = 0
    /\ response = [kind |-> "none", status |-> 0, data |-> <<>>]
    /\ ret = [done |-> FALSE, none |-> TRUE, names |-> <<>>]
    /\ log = <<>>
    /\ printed = <<>>
    /\ exit_code = -1
    /\ exc = "none"

ValsIf(d, given) == IF d \in given THEN {Some(s) : s \in ValuesFor(d)} ELSE {None}

\* parser.parse_args(): the group's options present on the command line are
\* `given`; a repeated option keeps its last value, so one value per option is
\* drawn.  A rejected command line ends the process with status 2 (parser.error).
ParseArgs ==
    /\ pc = "start"
    /\ \E given \in SUBSET Dests :
          /\ supplied' = given
          /\ IF GroupAccepts(given)
             THEN \E e \in ValsIf("email", given), o \in ValsIf("org_name", given),
                     t \in ValsIf("technology", given) :
                     /\ args' = [email |-> e, org_name |-> o, technology |-> t]
                     /\ pc' = "parsed"
                     /\ UNCHANGED <<exit_code, exc>>
             ELSE /\ args' = args
                  /\ pc' = "exited"
                  /\ exit_code' = 2
                  /\ exc' = "SystemExit"
    /\ UNCHANGED <<breach_alarm, calls, requests, response, ret, log, printed>>

---------------------------------------------------------------------------
(* BreachAlarm.__init__ and main *)

\* BreachAlarm.__init__
BreachAlarmInit(email, org_name, technology) ==
    [constructed |-> TRUE, email |-> email, org_name |-> org_name,
     technology |-> technology]

\* The if / elif / elif chain of main, decided by the truth value of each argument.
MainBranch(a) ==
    IF Truthy(a.email) THEN "email"
    ELSE IF Truthy(a.org_name) THEN "org_name"
    ELSE IF Truthy(a.technology) THEN "technology"
    ELSE "none"

\* The validation inside the taken branch of main.
Rejected(b, a) ==
    IF b = "email" THEN ~is_valid_email(a.email.v)
    ELSE IF b = "org_name" THEN strip(a.org_name.v) = <<>>
    ELSE IF b = "technology" THEN strip(a.technology.v) = <<>>
    ELSE FALSE

RejectionLine(b) ==
    IF b = "email" THEN Line("Invalid email address format.")
    ELSE IF b = "org_name" THEN Line("Organization name cannot be empty.")
    ELSE Line("Technology name cannot be empty.")

\* main, from the parsed namespace up to the call of run (or the process exit).
Main ==
    /\ pc = "parsed"
    /\ LET b == MainBranch(args) IN
         IF b = "none"
         THEN /\ pc' = "returned"
              /\ UNCHANGED <<breach_alarm, printed, exit_code, exc>>
         ELSE IF Rejected(b, args)
         THEN /\ printed' = Append(printed, RejectionLine(b))
              /\ pc' = "exited"
              /\ exit_code' = 1
              /\ exc' = "SystemExit"
              /\ UNCHANGED breach_alarm
         ELSE /\ breach_alarm' =
                    BreachAlarmInit(IF b = "email" THEN args.email ELSE None,
                                    IF b = "org_name" THEN args.org_name ELSE None,
                                    IF b = "technology" THEN args.technology ELSE None)
              /\ pc' = "run"
              /\ UNCHANGED <<printed, exit_code, exc>>
    /\ UNCHANGED <<supplied, args, calls, requests, response, ret, log>>

\* A direct use of the class: BreachAlarm(email, org_name, technology) with any
\* combination of the optional fields.
Construct ==
    /\ pc = "start"
    /\ \E e, o, t \in {None} \cup {Some(s) : s \in TermStrings} :
          breach_alarm' = BreachAlarmInit(e, o, t)
    /\ pc' = "run"
    /\ UNCHANGED <<supplied, args, calls, requests, response, ret, log, printed,
                   exit_code, exc>>

---------------------------------------------------------------------------
(* BreachAlarm.run and the two search stubs *)

RunBranchAnyTerm(ba) ==
    IF Truthy(ba.email) \/ Truthy(ba.org_name) THEN "email"
    ELSE IF Truthy(ba.technology) THEN "technology"
    ELSE "none"

RunBranchIsNotNone(ba) ==
    IF ba.email.set THEN "email"
    ELSE IF ba.org_name.set THEN "org_name"
    ELSE IF ba.technology.set THEN "technology"
    ELSE "none"

\* The if / elif / elif / else chain of run.
RunBranch(ba) ==
    IF Truthy(ba.email) THEN "email"
    ELSE IF Truthy(ba.org_name) THEN "org_name"
    ELSE IF Truthy(ba.technology) THEN "technology"
    ELSE "none"

\* search_code_repositories followed by search_paste_sites: each logs and prints
\* a placeholder line and does nothing else.
StubCalls == <<"search_code_repositories", "search_paste_sites">>
StubLog == <<Rec("INFO", "Searching code repositories for"),
             Rec("INFO", "Searching paste sites for")>>
StubPrinted == <<Line("Searching code repositories for (placeholder)"),
                 Line("Searching paste sites for (placeholder)")>>

\* run, up to the single await of the HTTP response (email) or to its return.
Run ==
    /\ pc = "run"
    /\ LET b == RunBranch(breach_alarm) IN
         IF b = "email"
         THEN /\ log' = Append(log, Rec("INFO", "Checking email"))
              /\ calls' = Append(calls, "check_hibp")
              /\ requests' = requests + 1
              /\ pc' = "awaiting"
              /\ UNCHANGED printed
         ELSE IF b = "none"
         THEN /\ printed' = Append(printed, Line("Please provide an email address, organization name, or technology to search for."))
              /\ log' = Append(log, Rec("WARNING", "No search term provided."))
              /\ pc' = "returned"
              /\ UNCHANGED <<calls, requests>>
         ELSE /\ log' = log \o <<Rec("INFO", IF b = "org_name"
                                              THEN "Searching for organization name"
                                              ELSE "Searching for technology")>>
                            \o StubLog
              /\ printed' = printed \o StubPrinted
              /\ calls' = calls \o StubCalls
              /\ pc' = "returned"
              /\ UNCHANGED requests
    /\ UNCHANGED <<supplied, args, breach_alarm, response, ret, exit_code, exc>>

---------------------------------------------------------------------------
(* BreachAlarm.check_hibp *)

NoneResult == [done |-> TRUE, none |-> TRUE, names |-> <<>>]
ListResult(l) == [done |-> TRUE, none |-> FALSE, names |-> l]

\* What the single request can come back with: a status (with the decoded JSON
\* body when the status is 200), a 200 whose body response.json() cannot decode,
\* a transport failure, or the user's interrupt while the request is awaited.
StatusResponses ==
    {[kind |-> "status", status |-> st, data |-> d] :
        st \in Statuses \ {200}, d \in {<<>>}}
    \cup {[kind |-> "status", status |-> 200, data |-> d] : d \in Bodies}
    \cup {[kind |-> "undecodable", status |-> 200, data |-> <<>>]}
TransportFailures == {[kind |-> "ClientError", status |-> 0, data |-> <<>>]}
Interrupts == {[kind |-> "KeyboardInterrupt", status |-> 0, data |-> <<>>]}

BreachNamesReversed(data) == [i \in 1..Len(data) |-> data[Len(data) + 1 - i].Name]

\* [breach['Name'] for breach in data]
BreachNames(data) == [i \in 1..Len(data) |-> data[i].Name]

\* The exception raised inside the try block, "none" if none is.
Raised(r) ==
    IF r.kind \in {"ClientError", "KeyboardInterrupt"} THEN r.kind
    ELSE IF r.status # 200 THEN "none"
    ELSE IF r.kind = "undecodable" THEN "ValueError"
    ELSE IF \E i \in 1..Len(r.data) : "Name" \notin DOMAIN r.data[i] THEN "KeyError"
    ELSE "none"

\* Python's exception hierarchy, as far as the two except clauses tell it apart.
IsClientError(e) == e = "ClientError"
IsException(e) == e \in {"ClientError", "ValueError", "KeyError"}

ExceptClauseClientOnly(e) ==
    IF e = "none" THEN "none"
    ELSE IF IsClientError(e) THEN "ClientError"
    ELSE "propagate"

\* The except clause that catches e: `except aiohttp.ClientError`, then
\* `except Exception`; anything else leaves check_hibp.
ExceptClause(e) ==
    IF e = "none" THEN "none"
    ELSE IF IsClientError(e) THEN "ClientError"
    ELSE IF IsException(e) THEN "Exception"
    ELSE "propagate"

Outcome(r, l, p) == [ret |-> r, log |-> l, printed |-> p, exc |-> "none"]

On200(data) ==
    Outcome(ListResult(BreachNames(data)), <<Rec("INFO", "found in breaches")>>, <<>>)

On404AsError ==
    Outcome(NoneResult, <<Rec("ERROR", "not found in any breaches")>>,
            <<Line("not found in any breaches")>>)

\* elif response.status == 404
On404 ==
    Outcome(NoneResult, <<Rec("INFO", "not found in any breaches")>>, <<>>)

On429Silent == Outcome(NoneResult, <<>>, <<>>)

\* elif response.status == 429
On429 ==
    Outcome(NoneResult, <<Rec("WARNING", "Rate limit exceeded")>>,
            <<Line("Rate limit exceeded")>>)

OnOtherStatusNoCode(status) ==
    Outcome(NoneResult, <<Rec("ERROR", "Error checking HIBP: Status code")>>,
            <<Line("Error checking HIBP: Status code")>>)

\* else: any other status
OnOtherStatus(status) ==
    Outcome(NoneResult, <<RecCode("ERROR", "Error checking HIBP: Status code", status)>>,
            <<LineCode("Error checking HIBP: Status code", status)>>)

\* except aiohttp.ClientError
OnClientError ==
    Outcome(NoneResult, <<Rec("ERROR", "AIOHTTP error")>>, <<Line("AIOHTTP error")>>)

\* except Exception (logging.exception logs at ERROR)
OnException ==
    Outcome(NoneResult, <<Rec("ERROR", "An unexpected error occurred")>>,
            <<Line("An unexpected error occurred")>>)

\* check_hibp from the arrival of the response to its return (or to the
\* exception that leaves it).
check_hibp(r) ==
    LET e == Raised(r)
        h == ExceptClause(e)
    IN IF h = "ClientError" THEN OnClientError
       ELSE IF h = "Exception" THEN OnException
       ELSE IF h = "propagate"
       THEN [ret |-> [done |-> FALSE, none |-> TRUE, names |-> <<>>],
             log |-> <<>>, printed |-> <<>>, exc |-> e]
       ELSE IF r.status = 200 THEN On200(r.data)
       ELSE IF r.status = 404 THEN On404
       ELSE IF r.status = 429 THEN On429
       ELSE OnOtherStatus(r.status)

\* The awaited request completes with r; check_hibp handles it and returns to
\* run, which returns to its caller.
Deliver(r) ==
    /\ pc = "awaiting"
    /\ response' = r
    /\ LET o == check_hibp(r) IN
         /\ log' = log \o o.log
         /\ printed' = printed \o o.printed
         /\ IF o.exc = "none"
            THEN /\ ret' = o.ret
                 /\ pc' = "returned"
                 /\ exc' = exc
            ELSE /\ ret' = ret
                 /\ pc' = "raised"
                 /\ exc' = o.exc
    /\ UNCHANGED <<supplied, args, breach_alarm, calls, requests, exit_code>>

Respond == \E r \in StatusResponses : Deliver(r)

TransportFailure == \E r \in TransportFailures : Deliver(r)

Interrupt == \E r \in Interrupts : Deliver(r)

---------------------------------------------------------------------------
(* The __main__ block *)

\* asyncio.run(main()) returns: the process ends with status 0.
Finish ==
    /\ pc = "returned"
    /\ pc' = "exited"
    /\ exit_code' = 0
    /\ UNCHANGED <<supplied, args, breach_alarm, calls, requests, response, ret, log,
                   printed, exc>>

\* An exception left asyncio.run(main()): KeyboardInterrupt is caught, "Exiting..."
\* is printed and the status is 0; any other one ends the process with status 1.
TopLevel ==
    /\ pc = "raised"
    /\ pc' = "exited"
    /\ IF exc = "KeyboardInterrupt"
       THEN /\ printed' = Append(printed, Line("Exiting..."))
            /\ exit_code' = 0
       ELSE /\ printed' = printed
            /\ exit_code' = 1
    /\ UNCHANGED <<supplied, args, breach_alarm, calls, requests, response, ret, log,
                   exc>>

\* The command line tool.
Next ==
    \/ ParseArgs
    \/ Main
    \/ Run
    \/ Respond
    \/ TransportFailure
    \/ Interrupt
    \/ Finish
    \/ TopLevel

Spec == Init /\ [][Next]_vars

\* The class used directly: any BreachAlarm, then run.
NextAPI ==
    \/ Construct
    \/ Run
    \/ Respond
    \/ TransportFailure
    \/ Interrupt

SpecAPI == Init /\ [][NextAPI]_vars

---------------------------------------------------------------------------
(* Properties *)

Last(s) == s[Len(s)]

\* run (and, for the email path, check_hibp) has returned to its caller.
Returned == pc \in {"returned", "exited"} /\ exc = "none"

GotStatus(st) == response.kind = "status" /\ response.status = st

AllHaveName(data) == \A i \in 1..Len(data) : "Name" \in DOMAIN data[i]

SetFields(ba) == {d \in Dests : ba[d].set}

\* C1: every email string that fails the address-format regex makes the run end
\* with exit status 1 and without any HTTP request, the empty string included.
C1_InvalidEmailExitsOne ==
    (supplied = {"email"} /\ args.email.set /\ ~is_valid_email(args.email.v))
        => /\ requests = 0
           /\ (pc = "exited" => exit_code = 1)

\* C2: for a 200 response whose records all carry Name, check_hibp returns the
\* records' Name values, same length and same order as received.
C2_NamesInOrder ==
    (Returned /\ GotStatus(200) /\ AllHaveName(response.data))
        => /\ ret.done /\ ~ret.none
           /\ Len(ret.names) = Len(response.data)
           /\ \A i \in 1..Len(response.data) : ret.names[i] = response.data[i].Name

C2_Witness ==
    /\ pc = "returned"
    /\ GotStatus(200)
    /\ response.data = <<[Name |-> "Adobe"], [Name |-> "LinkedIn"]>>
    /\ ret.names = <<"Adobe", "LinkedIn">>

\* C3 as stated: for a 429 response check_hibp returns a result the caller can
\* tell apart from the NotFound result, and exactly one request is made.
C3_RateLimitedResultDistinct ==
    (Returned /\ GotStatus(429)) => (ret # On404.ret /\ requests = 1)

\* C3 amended: for a 429 response check_hibp returns None, the very value it
\* returns for NotFound; the rate limit is reported by a WARNING record and a
\* printed line only, and exactly one request is made (no retry).
C3_RateLimitedReported ==
    (Returned /\ GotStatus(429))
        => /\ ret = NoneResult
           /\ ret = On404.ret
           /\ Last(log) = Rec("WARNING", "Rate limit exceeded")
           /\ Last(printed) = Line("Rate limit exceeded")
           /\ requests = 1

C3_Witness ==
    /\ pc = "returned" /\ GotStatus(429) /\ requests = 1 /\ ret = NoneResult
    /\ Len(printed) = 1

\* C4 as stated: for a status other than 200, 404 and 429 the returned result
\* identifies the status code, so it is none of the results of the other kinds.
C4_ResultCarriesStatus ==
    (Returned /\ response.kind = "status" /\ response.status \notin {200, 404, 429})
        => ret \notin {On404.ret, On429.ret}

\* C4 amended: for a status other than 200, 404 and 429 check_hibp returns None;
\* the status code is carried by the ERROR log record and the printed line only.
C4_StatusReported ==
    (Returned /\ response.kind = "status" /\ response.status \notin {200, 404, 429})
        => /\ ret = NoneResult
           /\ Last(log) = RecCode("ERROR", "Error checking HIBP: Status code",
                                  response.status)
           /\ Last(printed) = LineCode("Error checking HIBP: Status code",
                                       response.status)

C4_Witness ==
    /\ pc = "returned" /\ GotStatus(500) /\ ret = NoneResult
    /\ Last(printed).code = 500

\* C5: for a 404 response check_hibp returns None, no exception leaves it, and it
\* produces an informational log record only: no WARNING or ERROR record and no
\* console line.
C5_NotFoundIsNoError ==
    (pc \in {"returned", "raised", "exited"} /\ GotStatus(404))
        => /\ ret = NoneResult
           /\ exc = "none"
           /\ \A i \in 1..Len(log) : log[i].level = "INFO"
           /\ Last(log) = Rec("INFO", "not found in any breaches")
           /\ printed = <<>>

C5_Witness ==
    /\ pc = "returned" /\ GotStatus(404) /\ ret = NoneResult /\ Len(log) = 2

\* C6: an -o / -t value that is empty after trimming (whitespace only, or the
\* empty string) makes the run end with exit status 1 and no stub search called.
C6_EmptyTermExitsOne ==
    \A d \in {"org_name", "technology"} :
        (supplied = {d} /\ args[d].set /\ strip(args[d].v) = <<>>)
            => /\ calls = <<>>
               /\ (pc = "exited" => exit_code = 1)

\* C7: whenever a BreachAlarm exists, exactly one of its three fields is set, it
\* is the one option given on the command line and the other two are None; a
\* command line with more than one of -e, -o, -t is rejected by parse_args
\* before any BreachAlarm is constructed and before any check or search runs.
C7_ExactlyOneVariant ==
    /\ breach_alarm.constructed
          => /\ Cardinality(SetFields(breach_alarm)) = 1
             /\ SetFields(breach_alarm) = supplied
             /\ \A d \in Dests : breach_alarm[d] = args[d]
    /\ Cardinality(supplied) > 1
          => /\ ~breach_alarm.constructed
             /\ calls = <<>> /\ requests = 0
             /\ pc = "exited" /\ exit_code = 2

C7_Witness ==
    /\ supplied = {"email", "org_name"}
    /\ pc = "exited" /\ exit_code = 2
    /\ ~breach_alarm.constructed

\* C8: at most one HTTP request is issued in a run; it is issued on the email
\* path only, the organization and technology paths issue none.
C8_AtMostOneRequest ==
    /\ requests <= 1
    /\ requests = 1 => (Truthy(breach_alarm.email) /\ calls = <<"check_hibp">>)
    /\ (Truthy(breach_alarm.org_name) \/ Truthy(breach_alarm.technology))
          => requests = 0
    /\ response.kind # "none" => requests = 1

C8_Witness ==
    /\ pc = "exited" /\ requests = 1 /\ GotStatus(500) /\ exit_code = 0

\* C9: run takes exactly one branch, chosen by the first field that is set and
\* non-empty: email calls check_hibp only, org_name or technology call the two
\* search stubs only; with no field set run prints the usage prompt, issues no
\* request and calls no stub.
C9_RunDispatch ==
    pc \notin {"start", "run"}
        => IF Truthy(breach_alarm.email)
           THEN calls = <<"check_hibp">> /\ requests = 1
           ELSE IF Truthy(breach_alarm.org_name)
           THEN /\ calls = StubCalls /\ requests = 0
                /\ log[1] = Rec("INFO", "Searching for organization name")
           ELSE IF Truthy(breach_alarm.technology)
           THEN /\ calls = StubCalls /\ requests = 0
                /\ log[1] = Rec("INFO", "Searching for technology")
           ELSE /\ calls = <<>> /\ requests = 0
                /\ printed = <<Line("Please provide an email address, organization name, or technology to search for.")>>
                /\ log = <<Rec("WARNING", "No search term provided.")>>

C9_Witness ==
    /\ pc = "returned"
    /\ breach_alarm.email = Some(<<>>) /\ breach_alarm.org_name = None
    /\ breach_alarm.technology = None
    /\ calls = <<>> /\ requests = 0 /\ Len(printed) = 1

\* A failure of the email check: a transport failure, an error status, or a 200
\* whose body cannot be decoded or holds a record without Name.
Failed(r) ==
    \/ r.kind \in {"ClientError", "undecodable"}
    \/ r.kind = "status" /\ r.status \notin {200, 404}
    \/ r.kind = "status" /\ r.status = 200 /\ ~AllHaveName(r.data)

\* C10: after any failure of the email check, check_hibp has returned normally
\* (None) with a line printed and no exception has left it; the only exception
\* that leaves check_hibp, run and main once the request is issued is
\* KeyboardInterrupt, and the process then ends with status 0.
C10_FailuresHandledLocally ==
    /\ (Failed(response) /\ pc # "awaiting")
          => /\ exc = "none"
             /\ ret = NoneResult
             /\ Len(printed) = 1
             /\ Last(log).level = "ERROR" \/ Last(log).level = "WARNING"
             /\ (pc = "exited" => exit_code = 0)
    /\ (requests = 1 /\ exc # "none")
          => /\ exc = "KeyboardInterrupt"
             /\ response.kind = "KeyboardInterrupt"
             /\ (pc = "exited" => exit_code = 0 /\ Last(printed) = Line("Exiting..."))

C10_Witness ==
    /\ pc = "returned"
    /\ GotStatus(200) /\ response.data = <<[Title |-> "Adobe"]>>
    /\ ret = NoneResult
    /\ Last(printed) = Line("An unexpected error occurred")

====
